---- MODULE Spec2Model ----
(***************************************************************************)
(* A model of the OCR layout editor back end (src/app.py): the SQLite      *)
(* record store (pages, validation_log, exports_log), the page resolver    *)
(* (load_file), the save, validate and export handlers, the catalog scan   *)
(* (get_available_files) and the navigator (navigate).                     *)
(*                                                                         *)
(* Strings that the code takes apart (paths, file names, folder names)     *)
(* are sequences of one-character strings, so that basename, dirname,      *)
(* split, replace, endswith and the page_<digits> pattern are computed.    *)
(* Timestamps are readings of a logical clock, now, that advances with     *)
(* every committed write.                                                  *)
(***************************************************************************)
EXTENDS Integers, Sequences, FiniteSets, TLC

VARIABLES
    pages,           \* table pages: a set of rows, file_path unique
    pages_seq,       \* sqlite_sequence of pages: the largest id ever given
    validation_log,  \* table validation_log: rows in id order
    exports_log,     \* table exports_log: rows in id order
    now,             \* the clock read by datetime.now() and CURRENT_TIMESTAMP
    files,           \* the data directory: directory path -> listing (file names)
    content,         \* file path -> what json.load reads there
    walk,            \* the directories in the order os.walk visits them
    mirrored,        \* the file paths whose present content save_file wrote
    touched,         \* the paths a load or a save has succeeded on
    resp             \* the reply of the last request

vars == <<pages, pages_seq, validation_log, exports_log, now, files, content,
          walk, mirrored, touched, resp>>

dbvars == <<pages, pages_seq, validation_log, exports_log, now>>
fsvars == <<files, content, walk, mirrored>>

(***************************************************************************)
(* Bounds of the model.                                                    *)
(***************************************************************************)
MaxClock == 3     \* committed writes in one run
MaxJson == 3      \* .json files under the data directory in the scan runs

(***************************************************************************)
(* String literals of the code.                                            *)
(***************************************************************************)
EMPTY == <<>>
ROOT == <<"R", "o", "o", "t">>
ALL == <<"a", "l", "l">>
DOT_JSON == <<".", "j", "s", "o", "n">>
DATA_DIR == <<"/", "d", "a", "t", "a">>

(***************************************************************************)
(* str and os.path functions.                                              *)
(***************************************************************************)
startswith(s, pat, i) ==
    /\ i + Len(pat) - 1 <= Len(s)
    /\ SubSeq(s, i, i + Len(pat) - 1) = pat

endswith(s, suf) ==
    /\ Len(suf) <= Len(s)
    /\ SubSeq(s, Len(s) - Len(suf) + 1, Len(s)) = suf

RECURSIVE find(_, _, _)
\* str.find(pat) from index i on: the first index of pat, 0 when there is none
find(s, pat, i) ==
    IF i + Len(pat) - 1 > Len(s) THEN 0
    ELSE IF startswith(s, pat, i) THEN i
    ELSE find(s, pat, i + 1)

RECURSIVE str_replace(_, _)
\* s.replace(old, ''): every occurrence of old removed, left to right
str_replace(s, old) ==
    LET i == find(s, old, 1)
    IN  IF i = 0 THEN s
        ELSE SubSeq(s, 1, i - 1) \o str_replace(SubSeq(s, i + Len(old), Len(s)), old)

RECURSIVE rfind_slash(_, _)
\* s.rfind('/') within s[1..i]: the last index, 0 when there is none
rfind_slash(s, i) ==
    IF i = 0 THEN 0
    ELSE IF s[i] = "/" THEN i
    ELSE rfind_slash(s, i - 1)

RECURSIVE rstrip_slash(_)
rstrip_slash(s) ==
    IF s # <<>> /\ s[Len(s)] = "/" THEN rstrip_slash(SubSeq(s, 1, Len(s) - 1)) ELSE s

os_path_basename(p) == SubSeq(p, rfind_slash(p, Len(p)) + 1, Len(p))

os_path_dirname(p) ==
    LET head == SubSeq(p, 1, rfind_slash(p, Len(p)))
    IN  IF rstrip_slash(head) # <<>> THEN rstrip_slash(head) ELSE head

\* s.split('/')[-1]
split_last(s) == SubSeq(s, rfind_slash(s, Len(s)) + 1, Len(s))

os_path_join(a, b) ==
    IF b # <<>> /\ b[1] = "/" THEN b
    ELSE IF a = <<>> \/ a[Len(a)] = "/" THEN a \o b
    ELSE a \o <<"/">> \o b

\* os.path.relpath(p, start) for a path p below start
os_path_relpath(p, start) == SubSeq(p, Len(start) + 2, Len(p))

(***************************************************************************)
(* The file system below the data directory.                               *)
(***************************************************************************)
\* a directory of the listing has the file name
listed(dir, name) ==
    /\ dir \in DOMAIN files
    /\ \E i \in 1..Len(files[dir]) : files[dir][i] = name

os_path_exists(p) ==
    \/ p \in DOMAIN files
    \/ listed(os_path_dirname(p), os_path_basename(p))

\* open(p, 'r') followed by json.load: ok is FALSE when either raises
json_load(p) ==
    IF p \in DOMAIN content THEN content[p] ELSE [ok |-> FALSE, data |-> <<>>]

(***************************************************************************)
(* Items (BoundingBoxItem) and their JSON text.  An item is a function     *)
(* from its keys to values; its JSON text is the sequence of its members.  *)
(***************************************************************************)
KeyOrder == <<"bbox", "category", "id", "reading_order">>

json_dumps_item(item) ==
    LET ks == SelectSeq(KeyOrder, LAMBDA k : k \in DOMAIN item)
    IN  [j \in 1..Len(ks) |-> <<ks[j], item[ks[j]]>>]

json_dumps(data) == [i \in 1..Len(data) |-> json_dumps_item(data[i])]

json_loads_item(text) ==
    [k \in {text[j][1] : j \in 1..Len(text)} |->
        LET last == CHOOSE j \in 1..Len(text) :
                        /\ text[j][1] = k
                        /\ \A j2 \in 1..Len(text) : text[j2][1] = k => j2 <= j
        IN  text[last][2]]

json_loads(text) == [i \in 1..Len(text) |-> json_loads_item(text[i])]

\* the comprehension without its filter
clean_item_unfiltered(item) == item

\* {k: v for k, v in item.items() if k not in ['id']}
clean_item(item) == [k \in DOMAIN item \ {"id"} |-> item[k]]

clean_data(bbox_data) == [i \in 1..Len(bbox_data) |-> clean_item(bbox_data[i])]

\* uuid.uuid4() for the items of one request: one fresh value per position
UUIDS == {"u1", "u2"}

Uuid4 == {u \in [1..Cardinality(UUIDS) -> UUIDS] : \A i, j \in DOMAIN u : u[i] = u[j] => i = j}

\* the loop "for i, item in enumerate(data)": id and reading_order when absent
add_ids(data, u) ==
    [i \in 1..Len(data) |->
        LET item == data[i]
            with_id == IF "id" \in DOMAIN item THEN item
                       ELSE [k \in DOMAIN item \cup {"id"} |->
                                IF k = "id" THEN u[i] ELSE item[k]]
        IN  IF "reading_order" \in DOMAIN with_id THEN with_id
            ELSE [k \in DOMAIN with_id \cup {"reading_order"} |->
                     IF k = "reading_order" THEN i - 1 ELSE with_id[k]]]

(***************************************************************************)
(* The record store.                                                       *)
(***************************************************************************)
\* INSERT OR REPLACE INTO pages (file_path, folder_name, page_name, bbox_data,
\* last_modified): the row of file_path, if any, is deleted and a new row is
\* inserted; the columns the statement does not name take their defaults.
save_page_to_db(file_path, folder_name, page_name, bbox_data) ==
    /\ pages' = {r \in pages : r.file_path # file_path} \cup
                {[id            |-> pages_seq + 1,
                  file_path     |-> file_path,
                  folder_name   |-> folder_name,
                  page_name     |-> page_name,
                  bbox_data     |-> json_dumps(bbox_data),
                  is_validated  |-> FALSE,
                  last_modified |-> now + 1,
                  created_at    |-> now + 1]}
    /\ pages_seq' = pages_seq + 1
    /\ now' = now + 1

\* a lookup that compares the page name, not the path
get_page_from_db_by_name(file_path) == {r \in pages : r.page_name = file_path}

\* SELECT * FROM pages WHERE file_path = ?: the matching rows (none or one)
get_page_from_db(file_path) == {r \in pages : r.file_path = file_path}

\* the folder and page name load_file and save_file derive from the path
folder_of(file_path) ==
    IF rfind_slash(file_path, Len(file_path)) > 0
    THEN split_last(os_path_dirname(file_path))
    ELSE ROOT

page_name_of(file_path) == str_replace(os_path_basename(file_path), DOT_JSON)

\* rows in the order SELECT returns them: by id
RECURSIVE fetchall(_)
fetchall(rows) ==
    IF rows = {} THEN <<>>
    ELSE LET r == CHOOSE x \in rows : \A y \in rows : x.id <= y.id
         IN  <<r>> \o fetchall(rows \ {r})

(***************************************************************************)
(* Requests.  A missing or empty parameter is the empty string.            *)
(***************************************************************************)
P_DOCS_1 == <<"d", "o", "c", "s", "/", "p", "a", "g", "e", "_", "1", ".", "j", "s", "o", "n">>
P_ROOT_2 == <<"p", "a", "g", "e", "_", "2", ".", "j", "s", "o", "n">>
F_DOCS == <<"d", "o", "c", "s">>

ReqPaths == {EMPTY, P_DOCS_1, P_ROOT_2}

ITEM_A == [category |-> "Text", bbox |-> 1]
ITEM_B == [id |-> "c1", category |-> "Title", reading_order |-> 1, bbox |-> 2]
ITEM_C == [category |-> "Table", reading_order |-> 5, bbox |-> 3]

\* the "data" of a save request; <<>> is a missing or empty list
SaveBodies == {<<>>, <<ITEM_B, ITEM_A>>}

\* what the data directory may hold at a page's path
FileBodies == {[ok |-> TRUE, data |-> <<ITEM_C, ITEM_A>>],
               [ok |-> FALSE, data |-> <<>>]}

ExportRequests == {<<"page", P_DOCS_1>>, <<"page", EMPTY>>,
                   <<"folder", F_DOCS>>, <<"folder", ROOT>>, <<"folder", EMPTY>>,
                   <<"project", EMPTY>>, <<"zip", EMPTY>>, <<"", EMPTY>>}

(***************************************************************************)
(* GET /api/load_file                                                      *)
(***************************************************************************)
\* the reply of load_file in the present state (each return statement)
load_file_reply(file_path, u) ==
    LET db_data == get_page_from_db(file_path)
        full_path == os_path_join(DATA_DIR, file_path)
        file == json_load(full_path)
        request == [op |-> "load_file", file_path |-> file_path]
    IN  IF file_path = EMPTY THEN request @@ [status |-> 400]
        ELSE IF db_data # {}
        THEN LET row == CHOOSE r \in db_data : TRUE
             IN  request @@ [status |-> 200,
                             data |-> add_ids(json_loads(row.bbox_data), u),
                             is_validated |-> row.is_validated,
                             last_modified |-> row.last_modified,
                             source |-> "database"]
        ELSE IF ~os_path_exists(full_path) THEN request @@ [status |-> 404]
        ELSE IF ~file.ok THEN request @@ [status |-> 500]
        ELSE request @@ [status |-> 200, data |-> add_ids(file.data, u),
                         is_validated |-> FALSE, source |-> "filesystem"]

load_file(file_path, u) ==
    LET reply == load_file_reply(file_path, u)
    IN  /\ resp' = reply
        /\ IF reply.status = 200 /\ reply.source = "filesystem"
           THEN \* Save to database for future use
                /\ now < MaxClock
                /\ save_page_to_db(file_path, folder_of(file_path),
                                   page_name_of(file_path), reply.data)
                /\ UNCHANGED <<validation_log, exports_log>>
           ELSE UNCHANGED dbvars
        /\ touched' = IF reply.status = 200 THEN touched \cup {file_path} ELSE touched
        /\ UNCHANGED fsvars

(***************************************************************************)
(* POST /api/save_file                                                     *)
(***************************************************************************)
\* open(full_path, 'w') and json.dump(clean_data, f): the file is created or
\* overwritten
write_json(full_path, data) ==
    LET dir == os_path_dirname(full_path)
        name == os_path_basename(full_path)
    IN  /\ files' = IF os_path_exists(full_path) THEN files
                    ELSE [files EXCEPT ![dir] = Append(@, name)]
        /\ content' = (full_path :> [ok |-> TRUE, data |-> data]) @@ content
        /\ walk' = walk

save_file(file_path, bbox_data, save_to_filesystem) ==
    LET full_path == os_path_join(DATA_DIR, file_path)
    IN  IF file_path = EMPTY \/ bbox_data = <<>>
        THEN /\ resp' = [op |-> "save_file", file_path |-> file_path,
                         data |-> bbox_data, status |-> 400]
             /\ UNCHANGED <<dbvars, fsvars, touched>>
        ELSE /\ now < MaxClock
             /\ save_page_to_db(file_path, folder_of(file_path),
                                page_name_of(file_path), bbox_data)
             /\ IF save_to_filesystem
                THEN /\ write_json(full_path, clean_data(bbox_data))
                     /\ mirrored' = mirrored \cup {full_path}
                ELSE UNCHANGED fsvars
             /\ resp' = [op |-> "save_file", file_path |-> file_path,
                         data |-> bbox_data, status |-> 200,
                         saved_to_file |-> save_to_filesystem]
             /\ touched' = touched \cup {file_path}
             /\ UNCHANGED <<validation_log, exports_log>>

(***************************************************************************)
(* POST /api/validate_page                                                 *)
(***************************************************************************)
\* validate_page without the test of cursor.rowcount
validate_page_no_rowcount(file_path, is_validated) ==
    LET matched == {r \in pages : r.file_path = file_path}
    IN  IF file_path = EMPTY
        THEN /\ resp' = [op |-> "validate_page", file_path |-> file_path, status |-> 400]
             /\ UNCHANGED <<dbvars, fsvars, touched>>
        ELSE /\ now < MaxClock
             /\ pages' = (pages \ matched) \cup
                         {[r EXCEPT !.is_validated = is_validated] : r \in matched}
             /\ validation_log' =
                    IF is_validated
                    THEN validation_log \o
                         [i \in 1..Len(fetchall(matched)) |->
                             [page_id |-> fetchall(matched)[i].id,
                              validated_at |-> now + 1]]
                    ELSE validation_log
             /\ now' = now + 1
             /\ resp' = [op |-> "validate_page", file_path |-> file_path,
                         status |-> 200, is_validated |-> is_validated]
             /\ UNCHANGED <<pages_seq, exports_log, fsvars, touched>>

\* validate_page with the log written whatever the flag
validate_page_log_always(file_path, is_validated) ==
    LET matched == {r \in pages : r.file_path = file_path}
    IN  IF file_path = EMPTY
        THEN /\ resp' = [op |-> "validate_page", file_path |-> file_path, status |-> 400]
             /\ UNCHANGED <<dbvars, fsvars, touched>>
        ELSE IF matched = {}
        THEN /\ resp' = [op |-> "validate_page", file_path |-> file_path, status |-> 404]
             /\ UNCHANGED <<dbvars, fsvars, touched>>
        ELSE /\ now < MaxClock
             /\ pages' = (pages \ matched) \cup
                         {[r EXCEPT !.is_validated = is_validated] : r \in matched}
             /\ validation_log' =
                    validation_log \o
                    [i \in 1..Len(fetchall(matched)) |->
                        [page_id |-> fetchall(matched)[i].id,
                         validated_at |-> now + 1]]
             /\ now' = now + 1
             /\ resp' = [op |-> "validate_page", file_path |-> file_path,
                         status |-> 200, is_validated |-> is_validated]
             /\ UNCHANGED <<pages_seq, exports_log, fsvars, touched>>

validate_page(file_path, is_validated) ==
    LET matched == {r \in pages : r.file_path = file_path}
    IN  IF file_path = EMPTY
        THEN /\ resp' = [op |-> "validate_page", file_path |-> file_path, status |-> 400]
             /\ UNCHANGED <<dbvars, fsvars, touched>>
        ELSE IF matched = {}
        THEN \* cursor.rowcount == 0: the reply is sent before any commit
             /\ resp' = [op |-> "validate_page", file_path |-> file_path, status |-> 404]
             /\ UNCHANGED <<dbvars, fsvars, touched>>
        ELSE /\ now < MaxClock
             /\ pages' = (pages \ matched) \cup
                         {[r EXCEPT !.is_validated = is_validated] : r \in matched}
             /\ validation_log' =
                    IF is_validated
                    THEN validation_log \o
                         [i \in 1..Len(fetchall(matched)) |->
                             [page_id |-> fetchall(matched)[i].id,
                              validated_at |-> now + 1]]
                    ELSE validation_log
             /\ now' = now + 1
             /\ resp' = [op |-> "validate_page", file_path |-> file_path,
                         status |-> 200, is_validated |-> is_validated]
             /\ UNCHANGED <<pages_seq, exports_log, fsvars, touched>>

(***************************************************************************)
(* POST /api/export                                                        *)
(***************************************************************************)
\* the two archive entries of one page row
zip_entries(page) ==
    << [name |-> page.page_name \o DOT_JSON,
        items |-> clean_data(json_loads(page.bbox_data))],
       [name |-> page.page_name \o <<"_", "m", "e", "t", "a", "d", "a", "t", "a">> \o DOT_JSON,
        metadata |-> [file_path     |-> page.file_path,
                      folder_name   |-> page.folder_name,
                      page_name     |-> page.page_name,
                      is_validated  |-> page.is_validated,
                      last_modified |-> page.last_modified,
                      created_at    |-> page.created_at]] >>

RECURSIVE zip_file(_)
zip_file(rows) ==
    IF rows = <<>> THEN <<>> ELSE zip_entries(Head(rows)) \o zip_file(Tail(rows))

\* the SELECTs without their WHERE clauses
export_select_all(export_type, export_scope) == pages

\* the SELECT of each export type
export_select(export_type, export_scope) ==
    IF export_type = "page" THEN {r \in pages : r.file_path = export_scope}
    ELSE IF export_type = "folder" THEN {r \in pages : r.folder_name = export_scope}
    ELSE pages

export_data(export_type, export_scope) ==
    LET selected == fetchall(export_select(export_type, export_scope))
        request == [op |-> "export_data", export_type |-> export_type,
                    export_scope |-> export_scope]
    IN  IF export_type = ""
        THEN /\ resp' = request @@ [status |-> 400]
             /\ UNCHANGED <<dbvars, fsvars, touched>>
        ELSE IF export_type \in {"page", "folder"} /\ export_scope = EMPTY
        THEN /\ resp' = request @@ [status |-> 400]
             /\ UNCHANGED <<dbvars, fsvars, touched>>
        ELSE IF export_type \notin {"page", "folder", "project"}
        THEN /\ resp' = request @@ [status |-> 400]
             /\ UNCHANGED <<dbvars, fsvars, touched>>
        ELSE IF selected = <<>>
        THEN /\ resp' = request @@ [status |-> 404]
             /\ UNCHANGED <<dbvars, fsvars, touched>>
        ELSE /\ now < MaxClock
             /\ exports_log' = Append(exports_log,
                    [export_type |-> export_type,
                     export_scope |-> IF export_scope = EMPTY THEN ALL ELSE export_scope,
                     file_count |-> Len(selected),
                     exported_at |-> now + 1])
             /\ now' = now + 1
             /\ resp' = request @@ [status |-> 200, archive |-> zip_file(selected)]
             /\ UNCHANGED <<pages, pages_seq, validation_log, fsvars, touched>>

(***************************************************************************)
(* The environment: files of the data directory appear, change and go.     *)
(***************************************************************************)
WriteFile(full_path, body) ==
    LET dir == os_path_dirname(full_path)
        name == os_path_basename(full_path)
    IN  /\ dir \in DOMAIN files
        /\ ~(os_path_exists(full_path) /\ json_load(full_path) = body)
        /\ files' = IF os_path_exists(full_path) THEN files
                    ELSE [files EXCEPT ![dir] = Append(@, name)]
        /\ content' = (full_path :> body) @@ content
        /\ mirrored' = mirrored \ {full_path}
        /\ walk' = walk
        /\ resp' = [op |-> "environment"]
        /\ UNCHANGED <<dbvars, touched>>

RemoveFile(full_path) ==
    LET dir == os_path_dirname(full_path)
        name == os_path_basename(full_path)
    IN  /\ dir \in DOMAIN files
        /\ os_path_exists(full_path)
        /\ files' = [files EXCEPT ![dir] = SelectSeq(@, LAMBDA n : n # name)]
        /\ content' = [p \in DOMAIN content \ {full_path} |-> content[p]]
        /\ mirrored' = mirrored \ {full_path}
        /\ walk' = walk
        /\ resp' = [op |-> "environment"]
        /\ UNCHANGED <<dbvars, touched>>

(***************************************************************************)
(* The directories of the data directory, and the initial state: the       *)
(* tables init_database creates, empty, and an empty data directory.       *)
(***************************************************************************)
D_DOCS == DATA_DIR \o <<"/", "d", "o", "c", "s">>
D_A_DOCS == DATA_DIR \o <<"/", "a", "/", "d", "o", "c", "s">>
D_DATA == DATA_DIR \o <<"/", "d", "a", "t", "a">>

Dirs == {DATA_DIR, D_DOCS, D_A_DOCS, D_DATA}

init_database ==
    /\ pages = {}
    /\ pages_seq = 0
    /\ validation_log = <<>>
    /\ exports_log = <<>>

Init ==
    /\ init_database
    /\ now = 0
    /\ files = [d \in Dirs |-> <<>>]
    /\ content = <<>>
    /\ walk = <<DATA_DIR, D_A_DOCS, D_DATA, D_DOCS>>
    /\ mirrored = {}
    /\ touched = {}
    /\ resp = [op |-> "start"]

\* the page file the environment writes and removes in the store runs
StoreFiles == {os_path_join(DATA_DIR, P_DOCS_1)}

Next ==
    \/ \E p \in ReqPaths, u \in Uuid4 : load_file(p, u)
    \/ \E p \in ReqPaths, d \in SaveBodies, fs \in BOOLEAN : save_file(p, d, fs)
    \/ \E p \in ReqPaths, v \in BOOLEAN : validate_page(p, v)
    \/ \E r \in ExportRequests : export_data(r[1], r[2])
    \/ \E f \in StoreFiles, b \in FileBodies : WriteFile(f, b)
    \/ \E f \in StoreFiles : RemoveFile(f)

Spec == Init /\ [][Next]_vars

(***************************************************************************)
(* The catalog scan: get_available_files.                                  *)
(***************************************************************************)
DOT_PNG == <<".", "p", "n", "g">>
DOT_JPG == <<".", "j", "p", "g">>
DOT_JPEG == <<".", "j", "p", "e", "g">>
S_ORIGINAL == <<"_", "o", "r", "i", "g", "i", "n", "a", "l">>
S_ANNOTATED == <<"_", "a", "n", "n", "o", "t", "a", "t", "e", "d">>
S_PAGE == <<"p", "a", "g", "e", "_">>
DIGITS == <<"0", "1", "2", "3", "4", "5", "6", "7", "8", "9">>

\* the characters of the model's names in code point order, for str comparison
CODE_POINTS == <<".", "/", "0", "1", "2", "3", "4", "5", "6", "7", "8", "9",
                 "R", "_", "a", "c", "d", "e", "g", "i", "j", "l", "n", "o",
                 "p", "r", "s", "t">>

ord(c) == CHOOSE i \in 1..Len(CODE_POINTS) : CODE_POINTS[i] = c

RECURSIVE str_lt(_, _)
\* a < b on str
str_lt(a, b) ==
    IF b = <<>> THEN FALSE
    ELSE IF a = <<>> THEN TRUE
    ELSE IF Head(a) = Head(b) THEN str_lt(Tail(a), Tail(b))
    ELSE ord(Head(a)) < ord(Head(b))

isdigit(c) == \E d \in 1..Len(DIGITS) : DIGITS[d] = c

RECURSIVE digits_end(_, _)
\* \d+ from index i on, greedy: the index of the last digit of the run
digits_end(s, i) ==
    IF i + 1 <= Len(s) /\ isdigit(s[i + 1]) THEN digits_end(s, i + 1) ELSE i

RECURSIVE int(_)
\* int() of a string of digits
int(s) ==
    IF s = <<>> THEN 0
    ELSE 10 * int(SubSeq(s, 1, Len(s) - 1))
         + (CHOOSE d \in 0..9 : DIGITS[d + 1] = s[Len(s)])

RECURSIVE page_num_from(_, _)
\* re.search(r'page_(\d+)', filename) from index i on, and int(group(1)) or 0
page_num_from(filename, i) ==
    LET d == i + Len(S_PAGE)
    IN  IF d > Len(filename) THEN 0
        ELSE IF startswith(filename, S_PAGE, i) /\ isdigit(filename[d])
        THEN int(SubSeq(filename, d, digits_end(filename, d)))
        ELSE page_num_from(filename, i + 1)

page_num_of(filename) == page_num_from(filename, 1)

\* the names tried for a base name, in the order of the two loops
possible_names(base_name) ==
    LET image_extensions == <<DOT_PNG, DOT_JPG, DOT_JPEG>>
        patterns == <<S_ORIGINAL, <<>>, S_ANNOTATED>>
    IN  [n \in 1..(Len(image_extensions) * Len(patterns)) |->
            base_name \o patterns[((n - 1) % Len(patterns)) + 1]
                      \o image_extensions[((n - 1) \div Len(patterns)) + 1]]

\* the first of them that exists in root (<<>> when image_path stays None);
\* os.path.exists(os.path.join(root, possible_name)) looks the name up in root
image_path_in(root, base_name) ==
    LET names == possible_names(base_name)
        hits == {n \in 1..Len(names) : listed(root, names[n])}
    IN  IF hits = {} THEN <<>>
        ELSE os_path_join(root, names[CHOOSE n \in hits : \A m \in hits : n <= m])

\* folder_name of one directory of the walk
folder_name_of(root, data_dir) ==
    IF os_path_basename(root) = os_path_basename(data_dir) THEN ROOT
    ELSE os_path_basename(root)

RECURSIVE files_of_root(_, _, _)
\* the entries appended for root's filenames, in listing order
files_of_root(root, filenames, data_dir) ==
    IF filenames = <<>> THEN <<>>
    ELSE LET filename == Head(filenames)
             json_path == os_path_join(root, filename)
             base_name == str_replace(filename, DOT_JSON)
             image_path == image_path_in(root, base_name)
             rest == files_of_root(root, Tail(filenames), data_dir)
         IN  IF endswith(filename, DOT_JSON) /\ image_path # <<>>
             THEN << [name            |-> base_name,
                      json_path       |-> os_path_relpath(json_path, data_dir),
                      image_path      |-> os_path_relpath(image_path, data_dir),
                      full_json_path  |-> json_path,
                      full_image_path |-> image_path,
                      page_num        |-> page_num_of(filename),
                      folder          |-> folder_name_of(root, data_dir)] >> \o rest
             ELSE rest

RECURSIVE os_walk(_, _)
\* every entry in the order of discovery
os_walk(roots, data_dir) ==
    IF roots = <<>> THEN <<>>
    ELSE files_of_root(Head(roots), files[Head(roots)], data_dir)
         \o os_walk(Tail(roots), data_dir)

RECURSIVE sort_by_page_num(_)
\* list.sort(key=page_num): stable, so equal keys keep their order
sort_by_page_num(entries) ==
    IF entries = <<>> THEN <<>>
    ELSE LET front == sort_by_page_num(SubSeq(entries, 1, Len(entries) - 1))
             e == entries[Len(entries)]
             keep == Cardinality({i \in 1..Len(front) : front[i].page_num <= e.page_num})
         IN  SubSeq(front, 1, keep) \o <<e>> \o SubSeq(front, keep + 1, Len(front))

RECURSIVE sorted(_)
\* sorted() of a set of str
sorted(keys) ==
    IF keys = {} THEN <<>>
    ELSE LET k == CHOOSE x \in keys : \A y \in keys \ {x} : str_lt(x, y)
         IN  <<k>> \o sorted(keys \ {k})

\* the dict returned, as the sequence of its items
get_available_files(data_dir) ==
    IF ~os_path_exists(data_dir) THEN <<>>
    ELSE LET found == os_walk(walk, data_dir)
             folders == sorted({found[i].folder : i \in 1..Len(found)})
         IN  [f \in 1..Len(folders) |->
                 [folder |-> folders[f],
                  files  |-> sort_by_page_num(
                                 SelectSeq(found, LAMBDA e : e.folder = folders[f]))]]

(***************************************************************************)
(* GET /api/folders                                                        *)
(***************************************************************************)
get_folders ==
    /\ resp' = [op |-> "get_folders", status |-> 200,
                files_by_folder |-> get_available_files(DATA_DIR)]
    /\ UNCHANGED <<dbvars, fsvars, touched>>

(***************************************************************************)
(* GET /api/navigate                                                       *)
(***************************************************************************)
\* next and prev with no wraparound
new_index_clamped(direction, current_index, count) ==
    IF direction = "next"
    THEN IF current_index + 1 < count THEN current_index + 1 ELSE current_index
    ELSE IF current_index > 0 THEN current_index - 1 ELSE 0

\* prev computed like next
new_index_always_next(direction, current_index, count) == (current_index + 1) % count

\* the new 0-based index
new_index_of(direction, current_index, count) ==
    IF direction = "next" THEN (current_index + 1) % count
    ELSE (current_index - 1) % count

\* the two loops: the first folder, in the dict's order, that has an entry of
\* current_path, and the first index of one in it (0-based); none: folder 0
find_current(files_by_folder, current_path) ==
    LET has(f) == {i \in 1..Len(files_by_folder[f].files) :
                       files_by_folder[f].files[i].json_path = current_path}
        hits == {f \in 1..Len(files_by_folder) : has(f) # {}}
    IN  IF hits = {} THEN [folder |-> 0, index |-> 0]
        ELSE LET f == CHOOSE x \in hits : \A y \in hits : x <= y
             IN  [folder |-> f,
                  index |-> (CHOOSE i \in has(f) : \A j \in has(f) : i <= j) - 1]

\* the reply, given the catalog that navigate has just scanned
navigate_reply(files_by_folder, current_path, direction) ==
    LET request == [op |-> "navigate", current_path |-> current_path,
                    direction |-> direction]
        current == find_current(files_by_folder, current_path)
    IN  IF current_path = EMPTY \/ direction = "" THEN request @@ [status |-> 400]
        ELSE IF current.folder = 0 THEN request @@ [status |-> 404]
        ELSE LET files_in_folder == files_by_folder[current.folder].files
                 new_index == new_index_of(direction, current.index, Len(files_in_folder))
                 new_file == files_in_folder[new_index + 1]
             IN  request @@ [status       |-> 200,
                             json_path    |-> new_file.json_path,
                             image_path   |-> new_file.image_path,
                             name         |-> new_file.name,
                             page_num     |-> new_file.page_num,
                             current_page |-> new_index + 1,
                             total_pages  |-> Len(files_in_folder),
                             folder       |-> files_by_folder[current.folder].folder]

\* one request out of requests (pairs of current_path and direction)
navigate(requests) ==
    LET files_by_folder == get_available_files(DATA_DIR)
    IN  /\ \E r \in requests : resp' = navigate_reply(files_by_folder, r[1], r[2])
        /\ UNCHANGED <<dbvars, fsvars, touched>>

(***************************************************************************)
(* The scan runs: the environment puts .json files and images into the     *)
(* directories and removes them; the catalog is listed and navigated.      *)
(***************************************************************************)
ScanJson == {D_DOCS \o <<"/", "p", "a", "g", "e", "_", "2", ".", "j", "s", "o", "n">>,
             D_DOCS \o <<"/", "p", "a", "g", "e", "_", "1", "0", ".", "j", "s", "o", "n">>,
             D_A_DOCS \o <<"/", "p", "a", "g", "e", "_", "2", ".", "j", "s", "o", "n">>,
             DATA_DIR \o <<"/", "s", "c", "a", "n", ".", "j", "s", "o", "n">>,
             D_DATA \o <<"/", "p", "a", "g", "e", "_", "2", ".", "j", "s", "o", "n">>}

ScanImages == {D_DOCS \o <<"/", "p", "a", "g", "e", "_", "2", ".", "j", "p", "g">>,
               D_DOCS \o <<"/", "p", "a", "g", "e", "_", "1", "0", ".", "p", "n", "g">>,
               D_A_DOCS \o <<"/", "p", "a", "g", "e", "_", "2", "_", "a", "n", "n", "o", "t", "a", "t", "e", "d", ".", "p", "n", "g">>,
               DATA_DIR \o <<"/", "s", "c", "a", "n", "_", "o", "r", "i", "g", "i", "n", "a", "l", ".", "p", "n", "g">>,
               D_DATA \o <<"/", "p", "a", "g", "e", "_", "2", ".", "j", "p", "e", "g">>}

\* the navigate requests: each .json path with next and prev, and the two
\* requests with a parameter missing
NavRequests ==
    {<<os_path_relpath(f, DATA_DIR), d>> : f \in ScanJson, d \in {"next", "prev"}}
    \cup {<<EMPTY, "next">>, <<<<"p", "a", "g", "e", "_", "2", ".", "j", "s", "o", "n">>, "">>}

JsonCount ==
    Cardinality({f \in ScanJson : os_path_exists(f)})

\* an image file appears in its directory.  Where the listing shows it does
\* not matter to the scan, which skips every name that is no .json: the
\* images are listed first, in the order of their names.
PutImage(full_path) ==
    /\ ~os_path_exists(full_path)
    /\ files' = [files EXCEPT ![os_path_dirname(full_path)] =
           sorted({@[i] : i \in {j \in 1..Len(@) : ~endswith(@[j], DOT_JSON)}}
                  \cup {os_path_basename(full_path)})
           \o SelectSeq(@, LAMBDA n : endswith(n, DOT_JSON))]
    /\ resp' = [op |-> "environment"]
    /\ UNCHANGED <<dbvars, content, walk, mirrored, touched>>

\* os.walk visits the data directory first; the order of the others is the
\* file system's: docs before a/docs, or after it
WalkOrders == {<<DATA_DIR, D_A_DOCS, D_DATA, D_DOCS>>,
               <<DATA_DIR, D_DOCS, D_DATA, D_A_DOCS>>}

InitScan ==
    /\ init_database
    /\ now = 0
    /\ files = [d \in Dirs |-> <<>>]
    /\ content = <<>>
    /\ walk \in WalkOrders
    /\ mirrored = {}
    /\ touched = {}
    /\ resp = [op |-> "start"]

NextScan ==
    \/ \E f \in ScanJson :
           JsonCount < MaxJson /\ WriteFile(f, [ok |-> TRUE, data |-> <<>>])
    \/ \E f \in ScanImages : PutImage(f)
    \/ \E f \in ScanJson \cup ScanImages : RemoveFile(f)
    \/ get_folders
    \/ navigate(NavRequests)

SpecScan == InitScan /\ [][NextScan]_vars

(***************************************************************************)
(* The catalog runs: pages are listed by get_folders, and the pages the    *)
(* listing shows are opened with load_file and saved with save_file, as    *)
(* the editor does with the json_path of a catalog entry.                  *)
(***************************************************************************)
\* one page at the top level, one in docs and one in data, with its image
CatalogJson == {f \in ScanJson :
                   /\ os_path_dirname(f) \in {DATA_DIR, D_DOCS, D_DATA}
                   /\ page_num_of(os_path_basename(f)) < 10}

CatalogImages == {f \in ScanImages :
                     /\ os_path_dirname(f) \in {DATA_DIR, D_DOCS, D_DATA}
                     /\ page_num_of(os_path_basename(f)) < 10}

\* every entry of the catalog, folder by folder
entries_of(files_by_folder) ==
    UNION {{files_by_folder[f].files[e] : e \in 1..Len(files_by_folder[f].files)} :
              f \in 1..Len(files_by_folder)}

open_listed(files_by_folder) ==
    \E entry \in entries_of(files_by_folder), u \in Uuid4 :
        load_file(entry.json_path, u)

save_listed(files_by_folder) ==
    \E entry \in entries_of(files_by_folder) :
        save_file(entry.json_path, <<ITEM_B, ITEM_A>>, FALSE)

NextCatalog ==
    \/ \E f \in CatalogJson :
           JsonCount < MaxJson /\ WriteFile(f, [ok |-> TRUE, data |-> <<ITEM_C, ITEM_A>>])
    \/ \E f \in CatalogImages : PutImage(f)
    \/ \E f \in CatalogJson : RemoveFile(f)
    \/ get_folders
    \/ open_listed(get_available_files(DATA_DIR))
    \/ save_listed(get_available_files(DATA_DIR))

InitCatalog == Init

SpecCatalog == InitCatalog /\ [][NextCatalog]_vars

(***************************************************************************)
(* Properties of the record store and the page resolver.                   *)
(***************************************************************************)
\* the rows of a path, read off the table
RowsOf(file_path) == {r \in pages : r.file_path = file_path}

\* the step is a successful request of the handler op (every handler leaves
\* its own name in the reply)
Replied(op, status) == resp'.op = op /\ resp'.status = status

\* C1: an upsert of a path that already has a record (a successful save_file)
\* stores the request's items, refreshes last_modified and leaves is_validated
\* as it was; the upsert that first inserts a path's record sets it to false.
C1_UpsertKeepsValidated ==
    [][Replied("save_file", 200) =>
          \E new \in pages' :
              /\ new.file_path = resp'.file_path
              /\ json_loads(new.bbox_data) = resp'.data
              /\ \A old \in RowsOf(resp'.file_path) :
                     /\ new.is_validated = old.is_validated
                     /\ new.last_modified > old.last_modified
              /\ RowsOf(resp'.file_path) = {} => ~new.is_validated]_vars

\* C2: a load of a path with no record and a readable file answers from the
\* file system and seeds the record; once a load or a save of a path has
\* succeeded, every load of it answers from the store with the stored items
\* (ids and reading orders filled in), whatever the file holds.
C2_StorePrecedence ==
    [][resp'.op = "load_file" /\ resp'.file_path # EMPTY =>
          LET p == resp'.file_path
              full_path == os_path_join(DATA_DIR, p)
          IN  /\ (RowsOf(p) = {} /\ os_path_exists(full_path) /\ json_load(full_path).ok) =>
                     /\ resp'.status = 200
                     /\ resp'.source = "filesystem"
                     /\ \E r \in pages' : r.file_path = p /\ json_loads(r.bbox_data) = resp'.data
              /\ p \in touched =>
                     /\ resp'.status = 200
                     /\ resp'.source = "database"
                     /\ \E r \in RowsOf(p), u \in Uuid4 :
                            resp'.data = add_ids(json_loads(r.bbox_data), u)
                     /\ pages' = pages]_vars

\* a load answered from the store although the page's file is gone
C2_Witness ==
    /\ resp.op = "load_file"
    /\ resp.status = 200
    /\ resp.source = "database"
    /\ resp.file_path \in touched
    /\ ~os_path_exists(os_path_join(DATA_DIR, resp.file_path))
    /\ \E r \in RowsOf(resp.file_path) :
           /\ r.is_validated
           /\ clean_data(json_loads(r.bbox_data)) = clean_data(add_ids(<<ITEM_C, ITEM_A>>, <<"u1", "u2">>))

\* C3: after save_file of a path with an item list, load_file of that path
\* returns a list of the same length whose items carry every field of the
\* saved items, other than id, with the saved value.
C3_SaveLoadRoundTrip ==
    (resp.op = "save_file" /\ resp.file_path # EMPTY) =>
        \A u \in Uuid4 :
            LET reply == load_file_reply(resp.file_path, u)
            IN  /\ reply.status = 200
                /\ Len(reply.data) = Len(resp.data)
                /\ \A i \in 1..Len(resp.data) :
                       \A k \in DOMAIN resp.data[i] \ {"id"} :
                           /\ k \in DOMAIN reply.data[i]
                           /\ reply.data[i][k] = resp.data[i][k]

\* C4: validate_page of a path without a record replies 404 and leaves the
\* pages table and the validation log as they were.
C4_ValidateUnknownPath ==
    [][(resp'.op = "validate_page" /\ resp'.file_path # EMPTY
            /\ RowsOf(resp'.file_path) = {}) =>
          /\ resp'.status = 404
          /\ pages' = pages
          /\ pages_seq' = pages_seq
          /\ validation_log' = validation_log]_vars

\* validate_page of an unknown path was refused next to a validated record
C4_Witness ==
    /\ resp.op = "validate_page"
    /\ resp.status = 404
    /\ RowsOf(resp.file_path) = {}
    /\ \E r \in pages : r.is_validated
    /\ validation_log # <<>>

\* C7: no item of a file written by save_file (save_to_filesystem set) and no
\* item of a {name}.json entry of an export archive has the key id.
C7_NoIdWritten ==
    /\ \A f \in mirrored :
           /\ f \in DOMAIN content
           /\ \A i \in 1..Len(content[f].data) : "id" \notin DOMAIN content[f].data[i]
    /\ (resp.op = "export_data" /\ resp.status = 200) =>
           \A e \in 1..Len(resp.archive) :
               "items" \in DOMAIN resp.archive[e] =>
                   \A i \in 1..Len(resp.archive[e].items) :
                       "id" \notin DOMAIN resp.archive[e].items[i]

\* an export of a record whose stored items have ids, next to a mirrored file
C7_Witness ==
    /\ resp.op = "export_data"
    /\ resp.status = 200
    /\ mirrored # {}
    /\ \E r \in export_select(resp.export_type, resp.export_scope) :
           \E i \in 1..Len(r.bbox_data) : "id" \in DOMAIN json_loads(r.bbox_data)[i]

\* the records an export request selects, read off the table
Selected(export_type, export_scope) ==
    CASE export_type = "page"    -> {r \in pages : r.file_path = export_scope}
      [] export_type = "folder"  -> {r \in pages : r.folder_name = export_scope}
      [] export_type = "project" -> pages
      [] OTHER                   -> {}

\* C9 as stated: every export call of type page, folder or project adds one
\* row to the export log.
C9_EveryExportLogged ==
    [][(resp'.op = "export_data"
            /\ resp'.export_type \in {"page", "folder", "project"}) =>
          Len(exports_log') = Len(exports_log) + 1]_vars

\* C9, amended: an export call that succeeds appends one row with the type,
\* the scope ('all' when none is given) and the number of records selected;
\* an export call that fails appends none; no other step changes the log and
\* no row already in it changes.
C9_SuccessfulExportLogged ==
    /\ [][resp'.op = "export_data" =>
             LET sel == Selected(resp'.export_type, resp'.export_scope)
             IN  IF resp'.status = 200
                 THEN /\ sel # {}
                      /\ Len(exports_log') = Len(exports_log) + 1
                      /\ LET row == exports_log'[Len(exports_log')]
                         IN  /\ row.export_type = resp'.export_type
                             /\ row.export_scope = IF resp'.export_scope = EMPTY THEN ALL
                                                   ELSE resp'.export_scope
                             /\ row.file_count = Cardinality(sel)
                 ELSE /\ exports_log' = exports_log
                      /\ resp'.status = IF sel = {} /\ resp'.export_type = "project"
                                        THEN 404
                                        ELSE IF resp'.export_type \in {"page", "folder"}
                                                /\ resp'.export_scope # EMPTY
                                        THEN 404 ELSE 400]_vars
    /\ [][/\ Len(exports_log') >= Len(exports_log)
          /\ SubSeq(exports_log', 1, Len(exports_log)) = exports_log
          /\ exports_log' # exports_log => Replied("export_data", 200)]_vars

\* two exports of different types are in the log
C9_Witness ==
    /\ resp.op = "export_data"
    /\ resp.status = 200
    /\ Len(exports_log) = 2
    /\ exports_log[1].export_type # exports_log[2].export_type
    /\ exports_log[2].file_count = 1

\* C10 as stated: a successful validate_page appends a log entry exactly when
\* the flag goes from false to true.
C10_LogOnTransition ==
    [][Replied("validate_page", 200) =>
          /\ Len(validation_log') \in {Len(validation_log), Len(validation_log) + 1}
          /\ Len(validation_log') = Len(validation_log) + 1 <=>
                 /\ resp'.is_validated
                 /\ \A r \in RowsOf(resp'.file_path) : ~r.is_validated]_vars

\* C10, amended: a successful validate_page sets the record's flag and appends
\* one log entry, with the record's id, whenever the call sets the flag to
\* true, also when it was true already; a call that sets it to false appends
\* none; no other step changes the log.
C10_LogOnEverySetTrue ==
    /\ [][Replied("validate_page", 200) =>
             /\ RowsOf(resp'.file_path) # {}
             /\ \A r \in pages' :
                    r.file_path = resp'.file_path => r.is_validated = resp'.is_validated
             /\ IF resp'.is_validated
                THEN \E r \in RowsOf(resp'.file_path) :
                         /\ Len(validation_log') = Len(validation_log) + 1
                         /\ SubSeq(validation_log', 1, Len(validation_log)) = validation_log
                         /\ validation_log'[Len(validation_log')].page_id = r.id
                ELSE validation_log' = validation_log]_vars
    /\ [][validation_log' # validation_log =>
             Replied("validate_page", 200) /\ resp'.is_validated]_vars

\* a record validated twice in a row has two log entries
C10_Witness ==
    /\ resp.op = "validate_page"
    /\ resp.status = 200
    /\ Len(validation_log) = 2
    /\ validation_log[1].page_id = validation_log[2].page_id
    /\ \E r \in RowsOf(resp.file_path) : r.id = validation_log[2].page_id /\ r.is_validated

\* C11: in every state reached by load_file, save_file and validate_page,
\* the page_id of each validation_log entry is the id of a row of pages
\* (FOREIGN KEY (page_id) REFERENCES pages (id)); a save of a page that was
\* validated before leaves its earlier entries pointing at its record.
C11_LogReferencesPage ==
    \A i \in 1..Len(validation_log) :
        \E r \in pages : r.id = validation_log[i].page_id

\* C12: for every entry of the catalog, the folder_name that load_file and
\* save_file derive from the entry's json_path and store in the page's row
\* is the folder under which get_available_files lists the entry ("Root" for
\* the files directly under the data directory).
C12_CatalogStoreFolder ==
    LET files_by_folder == get_available_files(DATA_DIR)
    IN  \A f \in 1..Len(files_by_folder) :
            \A e \in 1..Len(files_by_folder[f].files) :
                \A r \in RowsOf(files_by_folder[f].files[e].json_path) :
                    r.folder_name = files_by_folder[f].folder

(***************************************************************************)
(* Properties of the catalog scan and the navigator.  A reply of           *)
(* get_folders or navigate is in resp only while the directory tree is as  *)
(* the request found it: every change of the tree replaces resp.           *)
(***************************************************************************)
\* the folder of the catalog and the 1-based places where it lists json_path
PlacesOf(files_by_folder, json_path) ==
    {<<f, i>> \in (1..Len(files_by_folder)) \X (1..MaxJson + 1) :
        /\ i <= Len(files_by_folder[f].files)
        /\ files_by_folder[f].files[i].json_path = json_path}

Opposite(direction) == IF direction = "next" THEN "prev" ELSE "next"

\* C5: navigate from a catalog entry E answers with an entry of E's folder,
\* and navigate from that entry in the opposite direction answers with E.
C5_NavigateRoundTrip ==
    (resp.op = "navigate" /\ resp.status = 200) =>
        LET files_by_folder == get_available_files(DATA_DIR)
            back == navigate_reply(files_by_folder, resp.json_path,
                                   Opposite(resp.direction))
        IN  /\ \E a \in PlacesOf(files_by_folder, resp.current_path),
                  b \in PlacesOf(files_by_folder, resp.json_path) :
                   /\ a[1] = b[1]
                   /\ files_by_folder[a[1]].folder = resp.folder
            /\ back.status = 200
            /\ back.json_path = resp.current_path
            /\ back.folder = resp.folder

\* next from the last of three entries has wrapped to the first
C5_Witness ==
    /\ resp.op = "navigate"
    /\ resp.status = 200
    /\ resp.direction = "next"
    /\ resp.total_pages = 3
    /\ resp.current_page = 1

\* C6: from the entry at place i of a folder of n entries, next answers with
\* the entry after it (the first after the last) and prev with the entry
\* before it (the last before the first); the reply has total_pages = n and
\* current_page = the place of the entry returned; a path that no folder
\* lists is answered 404.
C6_NavigatePosition ==
    (resp.op = "navigate" /\ resp.current_path # EMPTY /\ resp.direction # "") =>
        LET files_by_folder == get_available_files(DATA_DIR)
            places == PlacesOf(files_by_folder, resp.current_path)
        IN  IF places = {} THEN resp.status = 404
            ELSE /\ resp.status = 200
                 /\ \E a \in places :
                        LET entries == files_by_folder[a[1]].files
                            n == Len(entries)
                            i == a[2]
                            j == IF resp.direction = "next"
                                 THEN IF i = n THEN 1 ELSE i + 1
                                 ELSE IF i = 1 THEN n ELSE i - 1
                        IN  /\ resp.json_path = entries[j].json_path
                            /\ resp.image_path = entries[j].image_path
                            /\ resp.total_pages = n
                            /\ resp.current_page = j
                 /\ 1 <= resp.current_page
                 /\ resp.current_page <= resp.total_pages

\* prev from the first of three entries has wrapped to the last
C6_Witness ==
    /\ resp.op = "navigate"
    /\ resp.status = 200
    /\ resp.direction = "prev"
    /\ resp.total_pages = 3
    /\ resp.current_page = 3

\* a .json file of directory dir with an image of one of the nine names
HasImage(dir, filename) ==
    /\ endswith(filename, DOT_JSON)
    /\ \E pattern \in {S_ORIGINAL, <<>>, S_ANNOTATED}, ext \in {DOT_PNG, DOT_JPG, DOT_JPEG} :
           listed(dir, SubSeq(filename, 1, Len(filename) - Len(DOT_JSON)) \o pattern \o ext)

\* the .json files of dir that have an image, by full path
PairsIn(dir) ==
    {os_path_join(dir, files[dir][i]) :
        i \in {j \in 1..Len(files[dir]) : HasImage(dir, files[dir][j])}}

\* C8: the scan returns one folder key for each directory that holds a pair,
\* each folder holds exactly the pairs of one directory, each pair once, in
\* ascending order of page number with ties in the order of discovery, and
\* no .json file without an image.
C8_ScanFolders ==
    resp.op = "get_folders" =>
        LET files_by_folder == resp.files_by_folder
            found == os_walk(walk, DATA_DIR)
            place(e) == CHOOSE k \in 1..Len(found) : found[k] = e
            dirs == {d \in DOMAIN files : PairsIn(d) # {}}
        IN  /\ Len(files_by_folder) = Cardinality(dirs)
            /\ \A f \in 1..Len(files_by_folder) :
                   LET entries == files_by_folder[f].files
                   IN  /\ \E d \in dirs :
                              {entries[i].full_json_path : i \in 1..Len(entries)} = PairsIn(d)
                       /\ \A i, j \in 1..Len(entries) :
                              i < j =>
                                  /\ entries[i].full_json_path # entries[j].full_json_path
                                  /\ entries[i].page_num <= entries[j].page_num
                                  /\ entries[i].page_num = entries[j].page_num =>
                                         place(entries[i]) < place(entries[j])
                       /\ \A i \in 1..Len(entries) :
                              entries[i].page_num =
                                  page_num_of(os_path_basename(entries[i].full_json_path))

====
